---- MODULE Spec2Model ----
(***************************************************************************)
(* Document draft workflow, QMS register and evidence routes of the nick   *)
(* knowledge-base backend (routes/docs/drafts, routes/docs/docs,           *)
(* routes/qms/qms, routes/qms/evidence).                                   *)
(*                                                                         *)
(* Every route handler runs inside one database transaction supplied by    *)
(* the framework and reports errors by RETURNING a {status, json} object;  *)
(* no handler throws or rolls back on its own.  An action of this module   *)
(* is therefore one whole request: the SQL statements the handler executes *)
(* up to its return, all of which become visible together.                 *)
(***************************************************************************)
EXTENDS Integers, Sequences, FiniteSets, TLC

\* SQL NULL / JS null, and a request field that is absent (JS undefined),
\* for text values.
NULL == "NULL"
UNDEF == "UNDEF"
\* NULL of an id column (ids are positive, 0 is also falsy in JS)
NoId == 0

(***************************************************************************)
(* Bounds of the model.                                                    *)
(***************************************************************************)
\* number of requests served in a run of the draft workflow
MaxRequests == 5
\* number of requests served in a run of save, submit and approve only
MaxPublishRequests == 6
\* number of requests served in a run that includes the register routes
MaxQmsRequests == 3
\* number of requests served in a run of the training routes
MaxTrainingRequests == 5
\* number of requests served in a run of one trainee through a module
MaxCertifyRequests == 10

\* requests of a run with start requests served at the same time
MaxConcurrentRequests == 4

\* start requests in flight at the same time
MaxInFlight == 2

\* largest part of a version bumpVersion is called with, and the most parts
MaxPart == 2
MaxParts == 4

\* requests of a run of saves
MaxSaveRequests == 2

\* requests of a run of the link routes
MaxLinkRequests == 4

\* requests of a run of all the routes
MaxAnyRequests == 3

\* requests of a run with approve requests served at the same time, and the
\* approve requests among them
MaxPublishRunRequests == 4
MaxApproveRequests == 2

\* calls of addToken and removeToken of a run, and the last time of its clock
MaxAuthRequests == 4
MaxTime == 2

(***************************************************************************)
(* Value domains.                                                          *)
(***************************************************************************)
\* i18n.docs rows by id, and their slugs
DocIds == {1, 2}
SlugOf(d) == IF d = 1 THEN "sop-a" ELSE "guide-b"
\* slugs a request may carry: the two documents, an unknown one, none
ReqSlugs == {"sop-a", "guide-b", "no-such-doc", UNDEF}
\* document_id of the controlled documents of the register, and the ids
\* a request may carry: those, a well-formed unknown one, a malformed one
QmsIds == {"SOP-A", "SOP-B"}
ReqQmsIds == {"SOP-A", "SOP-B", "SOP-X", "bad id"}

\* Version strings are modelled by the list of their dot-separated numbers,
\* so "1.0" and "1.0.0" are different texts.
V10 == <<1, 0>>
V11 == <<1, 1>>
\* the default '0.0' of the approve handler
V00 == <<0, 0>>
\* NULL / empty version text (falsy), and an absent version field
VNull == <<>>
VUndef == <<-1>>

\* frontmatter JSON: some payload and its "version" key
FM1 == [data |-> "F1", version |-> V10]
FM2 == [data |-> "F2", version |-> V11]
FmUndef == [data |-> UNDEF, version |-> VNull]
FmNull == [data |-> NULL, version |-> VNull]

\* bodies of PUT /@docs/draft: a revision of the content under the current
\* version number, a new version number with the content left out, and a
\* body without version
PutBodies ==
  {[version |-> V10, title |-> "T2", body_md |-> "B2", frontmatter |-> FM2],
   [version |-> V11, title |-> UNDEF, body_md |-> UNDEF, frontmatter |-> FmUndef],
   [version |-> VUndef, title |-> "T2", body_md |-> UNDEF, frontmatter |-> FmUndef]}

VARIABLES
  docs,                  \* i18n.docs: id -> row
  doc_drafts,            \* i18n.doc_drafts: set of rows
  nextDraftId,           \* serial of i18n.doc_drafts.id
  doc_versions,          \* i18n.doc_versions: set of rows
  controlled_documents,  \* qms.controlled_documents: document_id -> row
  document_evidence,     \* qms.document_evidence: rows in id order
  document_transitions,  \* qms.document_transitions: rows in id order
  resp,                  \* the response of the last request
  served,                \* number of requests served so far
  training_sessions,          \* qms.training_sessions: rows in id order
  training_step_completions,  \* qms.training_step_completions: set of rows
  training_certificates,      \* qms.training_certificates: rows in issue order
  user_roles,                 \* qms.user_roles: set of rows
  call,                  \* the last training request and its JSON answer
  starting,              \* start requests whose transaction is still open
  approving,             \* approve requests: those in flight and those answered
  user_row,              \* the row of a user: the stored list of tokens
  now,                   \* the time, which jwt.verify compares with exp
  authOp,                \* the last call of addToken or removeToken
  document_links,        \* qms.document_links: set of rows
  nextLinkId,            \* serial of qms.document_links.id
  bumped                 \* a call of bumpVersion: arguments and results

\* the training tables, the link tables
trainingTables == <<training_sessions, training_step_completions,
                    training_certificates, user_roles>>
linkTables == <<document_links, nextLinkId>>
authVars == <<user_row, now, authOp>>

vars == <<docs, doc_drafts, nextDraftId, doc_versions, controlled_documents,
          document_evidence, document_transitions, resp, served,
          trainingTables, call, starting, approving, authVars, linkTables, bumped>>

\* what the draft, save, register and evidence routes never touch
besideDocs == <<trainingTables, call, starting, approving, authVars, linkTables, bumped>>

\* the tables a request may write
tables == <<docs, doc_drafts, nextDraftId, doc_versions, controlled_documents,
            document_evidence, document_transitions>>

Response(op, doc, qdoc, status, missing) ==
  [op |-> op, doc |-> doc, qdoc |-> qdoc, status |-> status, missing |-> missing]

(***************************************************************************)
(* Helpers shared by the handlers.                                         *)
(***************************************************************************)
\* SELECT id FROM i18n.docs WHERE slug = ?
DocsBySlug(slug) == {d \in DOMAIN docs : docs[d].slug = slug}

\* the document a request's slug names, NoId if there is none (slugs are
\* unique); echoed in resp.doc
DocOf(slug) ==
  IF DocsBySlug(slug) = {} THEN NoId ELSE CHOOSE d \in DocsBySlug(slug) : TRUE

\* getQmsDocumentId without its WHERE docs_id = ? clause.
getQmsDocumentId_Any(docsId) == DOMAIN controlled_documents

\* getQmsDocumentId: document_id of the register rows with this docs_id
\* (the handler takes rows[0]); empty when the document is not registered.
getQmsDocumentId(docsId) ==
  {q \in DOMAIN controlled_documents : controlled_documents[q].docs_id = docsId}

\* insertEvidence: one more row of qms.document_evidence.
insertEvidence(ev, documentId, transitionId, evidenceType) ==
  Append(ev, [document_id |-> documentId,
              transition_id |-> IF transitionId = NoId THEN NoId ELSE transitionId,
              evidence_type |-> evidenceType,
              is_superseded |-> FALSE])

\* insertEvidence guarded by "if (field)" of a request body
insertEvidenceIf(present, ev, documentId, transitionId, evidenceType) ==
  IF present THEN insertEvidence(ev, documentId, transitionId, evidenceType) ELSE ev

\* Timestamps.  The handlers never read the clock themselves: now() is the
\* start time of the request's transaction, it is stored in created_at and
\* updated_at of draft rows, and the only use made of the stored values is
\* the test created_at = updated_at of one row (IsNew).  Requests run one
\* after the other, so now() is later than every stored timestamp.  After
\* each write the two timestamps of a row are renumbered from 1 in their
\* order (Stamped), which preserves that test.
Now ==
  LET stamps == {r.created_at : r \in doc_drafts} \cup {r.updated_at : r \in doc_drafts}
  IN IF stamps = {} THEN 1
     ELSE 1 + CHOOSE t \in stamps : \A u \in stamps : u <= t

Stamped(rows) ==
  {[r EXCEPT !.created_at = 1,
             !.updated_at = IF r.updated_at = r.created_at THEN 1 ELSE 2]
   : r \in rows}

\* Row-update trigger of i18n.doc_drafts: updated_at follows every UPDATE.
TouchUpdatedAt(row) == [row EXCEPT !.updated_at = Now]

\* an absent step_number field
StepUndef == -1

\* qms.user_roles before any training: a role of bob that was revoked
InitialRoles ==
  {[user_id |-> "bob", role_code |-> "author", granted_by |-> "admin",
    active |-> FALSE]}

\* no training request yet
NoCall ==
  [op |-> "none", user |-> NULL, session_id |-> NoId, step_number |-> StepUndef,
   module_code |-> NULL, ok |-> FALSE, completed |-> FALSE]

\* user.tokens of a user who never had a token (null): a list like no
\* stored one
TokensNull == <<[jwt |-> NULL, signed |-> FALSE, exp |-> 0]>>

\* no call of addToken or removeToken yet
NoAuthOp == [op |-> "none", token |-> [jwt |-> NULL, signed |-> FALSE, exp |-> 0]]

\* no call of bumpVersion yet
NoBump == [version |-> VNull, bump |-> NULL, result |-> VNull, preview |-> VNull]

\* the database before the first request
InitDatabase ==
  /\ docs = [d \in DocIds |->
               [slug |-> SlugOf(d), version |-> V10, title |-> "T1",
                body_md |-> "B1", frontmatter |-> FM1]]
  /\ doc_drafts = {}
  /\ nextDraftId = 1
  /\ doc_versions = {}
  /\ controlled_documents =
       [q \in QmsIds |->
          [docs_id |-> IF q = "SOP-A" THEN 1 ELSE NoId,
           status |-> "effective", version |-> V10]]
  /\ document_evidence = <<>>
  /\ document_transitions = <<>>
  /\ resp = Response("none", NoId, NULL, 0, {})
  /\ served = 0
  /\ training_sessions = <<>>
  /\ training_step_completions = {}
  /\ training_certificates = <<>>
  /\ user_roles = InitialRoles
  /\ call = NoCall
  /\ starting = {}
  /\ approving = {}
  /\ user_row = [id |-> "alice", tokens |-> TokensNull]
  /\ now = 0
  /\ authOp = NoAuthOp
  /\ document_links = {}
  /\ nextLinkId = 1

Init == InitDatabase /\ bumped = NoBump

(***************************************************************************)
(* PUT /@docs/draft                                                        *)
(***************************************************************************)
\* UpsertDraft without its ON CONFLICT clause: the statement always inserts.
UpsertDraft_AlwaysInsert(d, version, title, body_md, frontmatter) ==
  doc_drafts \cup
    {[id |-> nextDraftId, doc_id |-> d, version |-> version,
      title |-> title, body_md |-> body_md, frontmatter |-> frontmatter,
      status |-> "draft", created_at |-> Now, updated_at |-> Now,
      reviewer_notes |-> NULL]}

\* INSERT ... ON CONFLICT (doc_id) DO UPDATE: the rows of the table after
\* the statement.
UpsertDraft(d, version, title, body_md, frontmatter) ==
  LET existing == {r \in doc_drafts : r.doc_id = d}
  IN IF existing = {}
     THEN doc_drafts \cup
            {[id |-> nextDraftId, doc_id |-> d, version |-> version,
              title |-> title, body_md |-> body_md, frontmatter |-> frontmatter,
              status |-> "draft", created_at |-> Now, updated_at |-> Now,
              reviewer_notes |-> NULL]}
     ELSE (doc_drafts \ existing) \cup
            {TouchUpdatedAt(
               [r EXCEPT !.version = version, !.title = title,
                         !.body_md = body_md, !.frontmatter = frontmatter,
                         !.status = IF r.status = "rejected" THEN "draft" ELSE r.status,
                         !.reviewer_notes =
                            IF r.status = "rejected" THEN NULL ELSE r.reviewer_notes])
             : r \in existing}

\* isNew without the comparison of the two timestamps.
IsNew_Always(draft) == TRUE

\* const isNew = created_at.getTime() === updated_at.getTime()
IsNew(draft) == draft.created_at = draft.updated_at

PutDraft(slug, version, title, body_md, frontmatter, justification) ==
  IF slug = UNDEF
  THEN /\ resp' = Response("put", NoId, NULL, 400, {})
       /\ UNCHANGED tables
  ELSE IF DocsBySlug(slug) = {}
  THEN /\ resp' = Response("put", NoId, NULL, 404, {})
       /\ UNCHANGED tables
  ELSE \E d \in DocsBySlug(slug) :
    IF version = VUndef \/ version = VNull
    THEN /\ resp' = Response("put", d, NULL, 400, {})
         /\ UNCHANGED tables
    ELSE
      LET doc == docs[d]
          inserted == {r \in doc_drafts : r.doc_id = d} = {}
          after == UpsertDraft(d, version,
                     IF title # UNDEF THEN title ELSE doc.title,
                     IF body_md # UNDEF THEN body_md ELSE doc.body_md,
                     IF frontmatter # FmUndef THEN frontmatter ELSE doc.frontmatter)
      IN \E draft \in {r \in after : r.doc_id = d} :
           LET isNew == IsNew(draft)
               record == isNew /\ justification /\ getQmsDocumentId(d) # {}
           IN /\ doc_drafts' = Stamped(after)
              /\ nextDraftId' = IF inserted THEN nextDraftId + 1 ELSE nextDraftId
              /\ IF record
                 THEN \E q \in getQmsDocumentId(d) :
                        document_evidence' =
                          insertEvidence(document_evidence, q, NoId, "justification")
                 ELSE UNCHANGED document_evidence
              /\ resp' = Response("put", d, NULL, IF isNew THEN 201 ELSE 200, {})
              /\ UNCHANGED <<docs, doc_versions, controlled_documents,
                             document_transitions>>

(***************************************************************************)
(* DELETE /@docs/draft                                                     *)
(***************************************************************************)
DeleteDraft(slug) ==
  IF slug = UNDEF
  THEN /\ resp' = Response("delete", NoId, NULL, 400, {})
       /\ UNCHANGED tables
  ELSE
    LET deleted == {r \in doc_drafts : r.doc_id \in DocsBySlug(slug)}
    IN /\ doc_drafts' = Stamped(doc_drafts \ deleted)
       /\ resp' = Response("delete", DocOf(slug), NULL,
                           IF deleted = {} THEN 404 ELSE 200, {})
       /\ UNCHANGED <<docs, nextDraftId, doc_versions, controlled_documents,
                      document_evidence, document_transitions>>

(***************************************************************************)
(* POST /@docs/draft/submit                                                *)
(***************************************************************************)
\* the statuses the UPDATE of submit accepts
SubmitFrom == {"draft", "rejected"}

\* NoRowStatus without the second look at the table
NoRowStatus_Always404(slug) == 404

\* 404 / 409 of submit and reject when the guarded UPDATE matched no row
NoRowStatus(slug) ==
  IF {r \in doc_drafts : r.doc_id \in DocsBySlug(slug)} # {} THEN 409 ELSE 404

SubmitDraft(slug, coi_declaration, qualification) ==
  IF slug = UNDEF
  THEN /\ resp' = Response("submit", NoId, NULL, 400, {})
       /\ UNCHANGED tables
  ELSE
    LET matched == {r \in doc_drafts :
                      r.doc_id \in DocsBySlug(slug) /\ r.status \in SubmitFrom}
    IN IF matched = {}
       THEN /\ resp' = Response("submit", DocOf(slug), NULL, NoRowStatus(slug), {})
            /\ UNCHANGED tables
       ELSE \E draftRow \in matched :
         LET qms == getQmsDocumentId(draftRow.doc_id)
         IN /\ doc_drafts' = Stamped((doc_drafts \ matched) \cup
                 {TouchUpdatedAt([r EXCEPT !.status = "in_review",
                                           !.reviewer_notes = NULL])
                  : r \in matched})
            /\ IF qms = {}
               THEN UNCHANGED document_evidence
               ELSE \E q \in qms :
                 document_evidence' =
                   insertEvidenceIf(qualification,
                     insertEvidenceIf(coi_declaration, document_evidence,
                                      q, NoId, "coi_declaration"),
                     q, NoId, "qualification")
            /\ resp' = Response("submit", draftRow.doc_id, NULL, 200, {})
            /\ UNCHANGED <<docs, nextDraftId, doc_versions,
                           controlled_documents, document_transitions>>

(***************************************************************************)
(* POST /@docs/draft/reject                                                *)
(***************************************************************************)
\* RejectFrom without the restriction to drafts under review
RejectFrom_AnyStatus == {"draft", "in_review"}

\* the status the UPDATE of reject accepts
RejectFrom == {"in_review"}

RejectDraft(slug, notes) ==
  IF slug = UNDEF \/ notes = UNDEF
  THEN /\ resp' = Response("reject", NoId, NULL, 400, {})
       /\ UNCHANGED tables
  ELSE
    LET matched == {r \in doc_drafts :
                      r.doc_id \in DocsBySlug(slug) /\ r.status \in RejectFrom}
    IN IF matched = {}
       THEN /\ resp' = Response("reject", DocOf(slug), NULL, NoRowStatus(slug), {})
            /\ UNCHANGED tables
       ELSE \E draftRow \in matched :
         LET qms == getQmsDocumentId(draftRow.doc_id)
         IN /\ doc_drafts' = Stamped((doc_drafts \ matched) \cup
                 {TouchUpdatedAt([r EXCEPT !.status = "rejected",
                                           !.reviewer_notes = notes])
                  : r \in matched})
            /\ IF qms = {}
               THEN UNCHANGED document_evidence
               ELSE \E q \in qms :
                 document_evidence' =
                   insertEvidence(document_evidence, q, NoId, "rejection_feedback")
            /\ resp' = Response("reject", draftRow.doc_id, NULL, 200, {})
            /\ UNCHANGED <<docs, nextDraftId, doc_versions,
                           controlled_documents, document_transitions>>

(***************************************************************************)
(* POST /@docs/draft/approve                                               *)
(***************************************************************************)
\* a row of i18n.doc_versions; superseded_at and superseded_by are set
\* together, superseded_by = VNull stands for "superseded_at IS NULL"
VersionRow(doc_id, version, title, body_md, frontmatter) ==
  [doc_id |-> doc_id, version |-> version, title |-> title,
   body_md |-> body_md, frontmatter |-> frontmatter,
   superseded_by |-> VNull, changes |-> NULL]

\* INSERT INTO i18n.doc_versions ... ON CONFLICT (doc_id, version) DO NOTHING
InsertVersion(versions, row) ==
  IF \E v \in versions : v.doc_id = row.doc_id /\ v.version = row.version
  THEN versions
  ELSE versions \cup {row}

\* UPDATE i18n.doc_versions SET superseded_at = now(), superseded_by = ?
\* WHERE doc_id = ? AND superseded_at IS NULL AND version != ?
Supersede(versions, doc_id, by) ==
  {IF v.doc_id = doc_id /\ v.superseded_by = VNull /\ v.version # by
   THEN [v EXCEPT !.superseded_by = by]
   ELSE v : v \in versions}

\* Trigger trg_auto_version_snapshot of i18n.docs: an UPDATE that changes
\* the version creates the doc_versions record of the new version.
AutoVersionSnapshot(versions, d, old, new) ==
  IF new.version # old.version
  THEN InsertVersion(versions,
         VersionRow(d, new.version, new.title, new.body_md, new.frontmatter))
  ELSE versions

\* SQL COALESCE(a, b) and JS a || b on text, and on frontmatter
Coalesce(a, b) == IF a = NULL THEN b ELSE a
OrElse(a, b) == IF a = NULL \/ a = "" THEN b ELSE a
FmOrElse(a, b) == IF a = FmNull THEN b ELSE a

\* qms.ref_evidence_types WHERE required = true AND phase <= 2
RequiredPhase12 == {"justification", "coi_declaration", "qualification"}

\* the validation gate looking for the justification only.
MissingEvidence_JustificationOnly(q) ==
  {t \in {"justification"} :
     ~ \E i \in DOMAIN document_evidence :
         LET de == document_evidence[i]
         IN de.document_id = q /\ de.evidence_type = t /\ ~ de.is_superseded}

\* the validation gate: required evidence types of phase <= 2 without a
\* non-superseded evidence row of the document
MissingEvidence(q) ==
  {t \in RequiredPhase12 :
     ~ \E i \in DOMAIN document_evidence :
         LET de == document_evidence[i]
         IN de.document_id = q /\ de.evidence_type = t /\ ~ de.is_superseded}

\* the status approve requires of the draft
ApproveFrom == {"in_review"}

\* draft.current_version || '0.0'
CurrentVersion(doc) == IF doc.version = VNull THEN V00 ELSE doc.version

\* steps 2-7 of approve for the rows its SELECT returned: draft is the
\* draft row and cur the i18n.docs row as they were read (draft.current_*);
\* the UPDATEs, the trigger and the ON CONFLICT clauses work on the tables
\* as they are when the statements run
ApproveWrites(draft, cur, checklist, approval_justification, change_classification) ==
  LET d == draft.doc_id
      \* 2. snapshot of the current effective version
      v2 == InsertVersion(doc_versions,
              VersionRow(d, CurrentVersion(cur), cur.title, cur.body_md,
                         cur.frontmatter))
      \* 3. mark previous version(s) as superseded
      v3 == Supersede(v2, d, draft.version)
      \* 4. copy draft content into i18n.docs
      new == [docs[d] EXCEPT !.title = Coalesce(draft.title, @),
                             !.body_md = Coalesce(draft.body_md, @),
                             !.version = draft.version,
                             !.frontmatter = FmOrElse(draft.frontmatter, @)]
      v4 == AutoVersionSnapshot(v3, d, docs[d], new)
      \* 5. the register row of the document, if any
      qms == getQmsDocumentId(d)
      \* 6. the new version snapshot
      v6 == InsertVersion(v4,
              VersionRow(d, draft.version,
                         OrElse(draft.title, cur.title),
                         OrElse(draft.body_md, cur.body_md),
                         FmOrElse(draft.frontmatter, cur.frontmatter)))
      \* 7. DELETE FROM i18n.doc_drafts WHERE id = ?
      kept == {r \in doc_drafts : r.id # draft.id}
  IN IF qms = {}
     THEN /\ docs' = [docs EXCEPT ![d] = new]
          /\ doc_versions' = v6
          /\ doc_drafts' = Stamped(kept)
          /\ resp' = Response("approve", d, NULL, 200, {})
          /\ UNCHANGED <<nextDraftId, controlled_documents,
                         document_evidence, document_transitions>>
     ELSE \E q \in qms :
       IF MissingEvidence(q) # {}
       THEN \* the gate returns after steps 2-4 were executed
            /\ docs' = [docs EXCEPT ![d] = new]
            /\ doc_versions' = v4
            /\ resp' = Response("approve", d, NULL, 422, MissingEvidence(q))
            /\ UNCHANGED <<doc_drafts, nextDraftId, controlled_documents,
                           document_evidence, document_transitions>>
       ELSE
         LET transitionId == Len(document_transitions) + 1
         IN /\ docs' = [docs EXCEPT ![d] = new]
            /\ document_transitions' = Append(document_transitions,
                 [document_id |-> q, action |-> "approve",
                  from_status |-> "in_review", to_status |-> "effective",
                  from_version |-> CurrentVersion(cur),
                  to_version |-> draft.version])
            /\ document_evidence' =
                 insertEvidenceIf(change_classification,
                   insertEvidenceIf(approval_justification,
                     insertEvidenceIf(checklist, document_evidence,
                                      q, transitionId, "self_review_checklist"),
                     q, transitionId, "approval_justification"),
                   q, transitionId, "change_classification")
            /\ controlled_documents' =
                 [c \in DOMAIN controlled_documents |->
                    IF controlled_documents[c].docs_id = d
                    THEN [controlled_documents[c] EXCEPT
                            !.version = draft.version, !.status = "effective"]
                    ELSE controlled_documents[c]]
            /\ doc_versions' = v6
            /\ doc_drafts' = Stamped(kept)
            /\ resp' = Response("approve", d, NULL, 200, {})
            /\ UNCHANGED nextDraftId

\* the handler run from its first statement to its return with no other
\* request in between
ApproveDraft(slug, checklist, approval_justification, change_classification) ==
  IF slug = UNDEF
  THEN /\ resp' = Response("approve", NoId, NULL, 400, {})
       /\ UNCHANGED tables
  ELSE IF {r \in doc_drafts : r.doc_id \in DocsBySlug(slug)} = {}
  THEN /\ resp' = Response("approve", DocOf(slug), NULL, 404, {})
       /\ UNCHANGED tables
  ELSE \E draft \in {r \in doc_drafts : r.doc_id \in DocsBySlug(slug)} :
    IF draft.status \notin ApproveFrom
    THEN /\ resp' = Response("approve", draft.doc_id, NULL, 409, {})
         /\ UNCHANGED tables
    ELSE ApproveWrites(draft, docs[draft.doc_id], checklist,
                       approval_justification, change_classification)

(***************************************************************************)
(* The approve handler for requests served at the same time.  Each request *)
(* runs in its own transaction: its SELECT sees what was committed when it *)
(* runs; its first write that meets a row or a key written by another open *)
(* transaction (the snapshot key of step 2, the i18n.docs row of step 4)   *)
(* waits until that transaction has committed, so steps 2-7 of a request   *)
(* take effect after those of the request that wrote first.                *)
(***************************************************************************)
\* the framework that opens the transaction is not among the sources; the
\* model takes it to use the default isolation level of PostgreSQL, READ
\* COMMITTED, under which the UPDATE that waited goes on with the committed
\* row.  TRUE would stand for REPEATABLE READ or SERIALIZABLE, which end the
\* request that waited with a serialization failure.
SerializationFailure(draft) == FALSE

\* step 1 of approve: the SELECT of the draft and the checks of its status
ReadApprove(rid, slug, checklist, approval_justification, change_classification) ==
  /\ \A t \in approving : t.rid # rid
  /\ IF slug = UNDEF
     THEN /\ resp' = Response("approve", NoId, NULL, 400, {})
          /\ UNCHANGED <<tables, approving>>
     ELSE IF {r \in doc_drafts : r.doc_id \in DocsBySlug(slug)} = {}
     THEN /\ resp' = Response("approve", DocOf(slug), NULL, 404, {})
          /\ UNCHANGED <<tables, approving>>
     ELSE \E draft \in {r \in doc_drafts : r.doc_id \in DocsBySlug(slug)} :
       IF draft.status \notin ApproveFrom
       THEN /\ resp' = Response("approve", draft.doc_id, NULL, 409, {})
            /\ UNCHANGED <<tables, approving>>
       ELSE /\ approving' = approving \cup
                 {[rid |-> rid, pc |-> "read", draft |-> draft,
                   cur |-> docs[draft.doc_id], checklist |-> checklist,
                   approval_justification |-> approval_justification,
                   change_classification |-> change_classification,
                   status |-> 0, transition_id |-> NoId]}
            /\ UNCHANGED <<tables, resp>>

\* steps 2-7 of approve and its return
WriteApprove(t) ==
  /\ t.pc = "read"
  /\ IF /\ SerializationFailure(t.draft)
        /\ t.draft \notin doc_drafts
     THEN /\ resp' = Response("approve", t.draft.doc_id, NULL, 500, {})
          /\ UNCHANGED tables
     ELSE ApproveWrites(t.draft, t.cur, t.checklist, t.approval_justification,
                        t.change_classification)
  /\ approving' = (approving \ {t}) \cup
       {[t EXCEPT !.pc = "done",
                  !.status = resp'.status,
                  !.transition_id =
                    IF Len(document_transitions') > Len(document_transitions)
                    THEN Len(document_transitions') ELSE NoId]}

(***************************************************************************)
(* POST /@docs/save                                                        *)
(***************************************************************************)
\* what a throw of bumpVersion is modelled by
BumpError == <<-2>>

RECURSIVE Pad3(_)
\* while (parts.length < 3) parts.push(0)
Pad3(parts) == IF Len(parts) < 3 THEN Pad3(Append(parts, 0)) ELSE parts

\* bumpVersion with the switch of the save dialog
bumpVersion_PatchByDefault(version, bump) ==
  LET parts == Pad3(version)
  IN CASE bump = "major" -> <<parts[1] + 1, 0, 0>>
       [] bump = "minor" -> <<parts[1], parts[2] + 1, 0>>
       [] OTHER -> <<parts[1], parts[2], parts[3] + 1>>

\* function bumpVersion(version, bump) of docs.js
bumpVersion(version, bump) ==
  LET parts == Pad3(version)
      major == parts[1]
      minor == parts[2]
      patch == parts[3]
  IN CASE bump = "major" -> <<major + 1, 0, 0>>
       [] bump = "minor" -> <<major, minor + 1, 0>>
       [] bump = "patch" -> <<major, minor, patch + 1>>
       [] OTHER -> BumpError

\* bumpVersion of the save dialog (DocSaveDialog.jsx), which shows the
\* version a save will produce: (version || '0.0.0'), and default: falls
\* into case 'patch'
DocSaveDialog_bumpVersion(version, bump) ==
  LET parts == Pad3(IF version \in {VNull, VUndef} THEN <<0, 0, 0>> ELSE version)
      major == parts[1]
      minor == parts[2]
      patch == parts[3]
  IN CASE bump = "major" -> <<major + 1, 0, 0>>
       [] bump = "minor" -> <<major, minor + 1, 0>>
       [] OTHER -> <<major, minor, patch + 1>>

\* UPDATE i18n.doc_versions SET changes = ?
\* WHERE doc_id = ? AND version = ? AND changes IS NULL
FillChanges(versions, d, version, change_summary) ==
  {IF v.doc_id = d /\ v.version = version /\ v.changes = NULL
   THEN [v EXCEPT !.changes = change_summary]
   ELSE v : v \in versions}

\* the save with the register left as it was.
SyncVersion_Nothing(register, docsId, newVersion) == register

\* UPDATE qms.controlled_documents SET version = ? WHERE docs_id = ?
SyncVersion(register, docsId, newVersion) ==
  [c \in DOMAIN register |->
     IF register[c].docs_id = docsId
     THEN [register[c] EXCEPT !.version = newVersion]
     ELSE register[c]]

SaveDoc(doc_id, body_md, version_bump, change_summary) ==
  IF doc_id = NoId \/ body_md = UNDEF \/ version_bump = UNDEF
     \/ change_summary = UNDEF
  THEN /\ resp' = Response("save", NoId, NULL, 400, {})
       /\ UNCHANGED tables
  ELSE IF version_bump \notin {"patch", "minor", "major"}
  THEN /\ resp' = Response("save", NoId, NULL, 400, {})
       /\ UNCHANGED tables
  ELSE IF doc_id \notin DOMAIN docs
  THEN /\ resp' = Response("save", NoId, NULL, 404, {})
       /\ UNCHANGED tables
  ELSE IF docs[doc_id].version = VNull
  THEN /\ resp' = Response("save", doc_id, NULL, 400, {})
       /\ UNCHANGED tables
  ELSE
    LET doc == docs[doc_id]
        newVersion == bumpVersion(doc.version, version_bump)
        updatedFrontmatter == [doc.frontmatter EXCEPT !.version = newVersion]
        new == [doc EXCEPT !.body_md = body_md, !.version = newVersion,
                           !.frontmatter = updatedFrontmatter]
        qms == getQmsDocumentId(doc_id)
    IN /\ docs' = [docs EXCEPT ![doc_id] = new]
       /\ doc_versions' =
            FillChanges(AutoVersionSnapshot(doc_versions, doc_id, doc, new),
                        doc_id, newVersion, change_summary)
       /\ IF qms = {}
          THEN /\ resp' = Response("save", doc_id, NULL, 200, {})
               /\ UNCHANGED <<controlled_documents, document_transitions>>
          ELSE \E q \in qms :
               /\ controlled_documents' =
                    SyncVersion(controlled_documents, doc_id, newVersion)
               /\ document_transitions' = Append(document_transitions,
                    [document_id |-> q, action |-> "content_update",
                     from_status |-> NULL, to_status |-> NULL,
                     from_version |-> doc.version, to_version |-> newVersion])
               /\ resp' = Response("save", doc_id, q, 200, {})
       /\ UNCHANGED <<doc_drafts, nextDraftId, document_evidence>>

(***************************************************************************)
(* POST /@docs/links, DELETE /@docs/links/:id                              *)
(***************************************************************************)
\* rows of qms.ref_relationship_types
ref_relationship_types == {"references", "supersedes"}

\* the INSERT without its ON CONFLICT clause taking effect.
InsertLink_Always(links, id, source_doc_id, target_doc_id, relationship_type) ==
  links \cup {[id |-> id, source_doc_id |-> source_doc_id,
               target_doc_id |-> target_doc_id,
               relationship_type |-> relationship_type]}

\* INSERT INTO qms.document_links ... ON CONFLICT (source_doc_id,
\* target_doc_id, relationship_type) DO NOTHING
InsertLink(links, id, source_doc_id, target_doc_id, relationship_type) ==
  IF \E l \in links : /\ l.source_doc_id = source_doc_id
                      /\ l.target_doc_id = target_doc_id
                      /\ l.relationship_type = relationship_type
  THEN links
  ELSE links \cup {[id |-> id, source_doc_id |-> source_doc_id,
                    target_doc_id |-> target_doc_id,
                    relationship_type |-> relationship_type]}

PostLink(source_doc_id, target_doc_id, relationship_type) ==
  LET refuse(status) ==
        /\ resp' = Response("link", NoId, NULL, status, {})
        /\ UNCHANGED linkTables
      inserted == InsertLink(document_links, nextLinkId, source_doc_id,
                             target_doc_id, relationship_type)
  IN IF \/ source_doc_id \in {UNDEF, ""}
        \/ target_doc_id \in {UNDEF, ""}
        \/ relationship_type \in {UNDEF, ""}
     THEN refuse(400)
     ELSE IF source_doc_id = target_doc_id THEN refuse(400)
     ELSE IF relationship_type \notin ref_relationship_types THEN refuse(400)
     ELSE IF inserted = document_links THEN refuse(409)
     ELSE /\ document_links' = inserted
          /\ nextLinkId' = nextLinkId + 1
          /\ resp' = Response("link", nextLinkId, source_doc_id, 201, {})

DeleteLink(id) ==
  LET deleted == {l \in document_links : l.id = id}
  IN IF deleted = {}
     THEN /\ resp' = Response("unlink", id, NULL, 404, {})
          /\ UNCHANGED linkTables
     ELSE /\ document_links' = document_links \ deleted
          /\ resp' = Response("unlink", id, NULL, 204, {})
          /\ UNCHANGED nextLinkId

(***************************************************************************)
(* helpers/auth: addToken, removeToken                                     *)
(***************************************************************************)
\* the tokens of the calls: a token is a string (jwt), compared as such;
\* signed tells whether it carries a signature of config.secret and exp is
\* its expiry time
Tokens ==
  {[jwt |-> "a", signed |-> TRUE, exp |-> 1],
   [jwt |-> "b", signed |-> TRUE, exp |-> 2],
   [jwt |-> "c", signed |-> TRUE, exp |-> MaxTime + 2],
   [jwt |-> "x", signed |-> FALSE, exp |-> MaxTime + 2]}

\* jwt.verify(token, config.secret) does not throw: the signature is that of
\* the secret and the token has not expired
verify(token, time) == token.signed /\ time < token.exp

\* user.update({ tokens }, trx) of the User model
update(row, tokens) == [row EXCEPT !.tokens = tokens]

\* addToken without its filter.
addToken_KeepAll(token, row, time) ==
  update(row, Append(IF row.tokens = TokensNull THEN <<>> ELSE row.tokens, token))

\* addToken(token, req, trx), req.user being the row
addToken(token, row, time) ==
  LET tokens == IF row.tokens = TokensNull THEN <<>> ELSE row.tokens
      filtered == SelectSeq(tokens, LAMBDA stored : verify(stored, time))
  IN update(row, Append(filtered, token))

\* removeToken(token, user, trx)
removeToken(token, row) ==
  LET tokens == IF row.tokens = TokensNull THEN <<>> ELSE row.tokens
  IN update(row, SelectSeq(tokens, LAMBDA tokenFromArray : tokenFromArray # token))

(***************************************************************************)
(* PUT /@qms/register/:document_id                                         *)
(***************************************************************************)
\* DOC_ID_RE = /^[A-Za-z0-9][A-Za-z0-9._-]{0,99}$/ on the ids of ReqQmsIds
DOC_ID_RE(document_id) == document_id # "bad id"

\* an absent docs_id field
IdUndef == -1

PutRegister(document_id, status, version, docs_id) ==
  IF ~ DOC_ID_RE(document_id)
  THEN /\ resp' = Response("register", NoId, document_id, 400, {})
       /\ UNCHANGED tables
  ELSE IF document_id \notin DOMAIN controlled_documents
  THEN /\ resp' = Response("register", NoId, document_id, 404, {})
       /\ UNCHANGED tables
  ELSE IF status = UNDEF /\ version = VUndef /\ docs_id = IdUndef
  THEN /\ resp' = Response("register", NoId, document_id, 400, {})
       /\ UNCHANGED tables
  ELSE
    LET row == controlled_documents[document_id]
        \* req.body[field] === '' ? null : req.body[field], for the fields sent
        updated ==
          [status |-> IF status = UNDEF THEN row.status
                      ELSE IF status = "" THEN NULL ELSE status,
           version |-> IF version = VUndef THEN row.version ELSE version,
           docs_id |-> IF docs_id = IdUndef THEN row.docs_id ELSE docs_id]
    IN /\ controlled_documents' =
            [controlled_documents EXCEPT ![document_id] = updated]
       /\ resp' = Response("register", NoId, document_id, 200, {})
       /\ UNCHANGED <<docs, doc_drafts, nextDraftId, doc_versions,
                      document_evidence, document_transitions>>

(***************************************************************************)
(* POST /@qms/register/:document_id/transition                             *)
(***************************************************************************)
PostTransition(document_id, action, to_status, to_version) ==
  IF ~ DOC_ID_RE(document_id) \/ action = UNDEF
  THEN /\ resp' = Response("transition", NoId, document_id, 400, {})
       /\ UNCHANGED tables
  ELSE IF document_id \notin DOMAIN controlled_documents
  THEN /\ resp' = Response("transition", NoId, document_id, 404, {})
       /\ UNCHANGED tables
  ELSE
    LET current == controlled_documents[document_id]
        hasStatus == to_status # UNDEF /\ to_status # ""
        hasVersion == to_version # VUndef /\ to_version # VNull
    IN /\ document_transitions' = Append(document_transitions,
            [document_id |-> document_id, action |-> action,
             from_status |-> current.status,
             to_status |-> IF hasStatus THEN to_status ELSE current.status,
             from_version |-> current.version,
             to_version |-> IF hasVersion THEN to_version ELSE current.version])
       /\ controlled_documents' =
            [controlled_documents EXCEPT ![document_id] =
               [current EXCEPT
                  !.status = IF hasStatus THEN to_status ELSE @,
                  !.version = IF hasVersion THEN to_version ELSE @]]
       /\ resp' = Response("transition", NoId, document_id, 201, {})
       /\ UNCHANGED <<docs, doc_drafts, nextDraftId, doc_versions,
                      document_evidence>>

(***************************************************************************)
(* POST /@qms/evidence                                                     *)
(***************************************************************************)
VALID_EVIDENCE_TYPES ==
  {"justification", "qualification", "coi_declaration", "review_comment",
   "self_review_checklist", "approval_justification", "change_classification",
   "rejection_feedback"}

\* the handler without the check of the transition it was given.
TransitionExists_Always(transition_id, document_id) == TRUE

\* SELECT id FROM qms.document_transitions WHERE id = ? AND document_id = ?
TransitionExists(transition_id, document_id) ==
  \E i \in DOMAIN document_transitions :
    i = transition_id /\ document_transitions[i].document_id = document_id

PostEvidence(document_id, transition_id, evidence_type, evidence_data) ==
  IF document_id = UNDEF \/ evidence_type = UNDEF \/ evidence_data = UNDEF
  THEN /\ resp' = Response("evidence", NoId, document_id, 400, {})
       /\ UNCHANGED tables
  ELSE IF evidence_type \notin VALID_EVIDENCE_TYPES
  THEN /\ resp' = Response("evidence", NoId, document_id, 400, {})
       /\ UNCHANGED tables
  ELSE IF document_id \notin DOMAIN controlled_documents
  THEN /\ resp' = Response("evidence", NoId, document_id, 404, {})
       /\ UNCHANGED tables
  ELSE IF transition_id # NoId /\ ~ TransitionExists(transition_id, document_id)
  THEN /\ resp' = Response("evidence", NoId, document_id, 404, {})
       /\ UNCHANGED tables
  ELSE /\ document_evidence' =
            Append(document_evidence,
                   [document_id |-> document_id,
                    transition_id |-> IF transition_id = NoId THEN NoId
                                      ELSE transition_id,
                    evidence_type |-> evidence_type,
                    is_superseded |-> FALSE])
       /\ resp' = Response("evidence", NoId, document_id, 201, {})
       /\ UNCHANGED <<docs, doc_drafts, nextDraftId, doc_versions,
                      controlled_documents, document_transitions>>

(***************************************************************************)
(* Training (routes/qms/training).                                         *)
(***************************************************************************)
\* req.user.id of the requests
Users == {"alice", "bob"}

\* qms.training_modules: the document-control module with its six steps, a
\* short module of two steps, and a module that is not active
training_modules ==
  {[id |-> 1, module_code |-> "TM-DC", active |-> TRUE,
    grants_roles |-> {"author", "reviewer"},
    steps |-> <<[step |-> 1, key |-> "create_draft", validation |-> "draft_exists"],
                [step |-> 2, key |-> "justify", validation |-> "evidence_justification"],
                [step |-> 3, key |-> "submit", validation |-> "draft_in_review"],
                [step |-> 4, key |-> "declare", validation |-> "evidence_coi_qualification"],
                [step |-> 5, key |-> "self_review", validation |-> "evidence_checklist"],
                [step |-> 6, key |-> "approve", validation |-> "document_effective"]>>],
   [id |-> 2, module_code |-> "TM-DRAFT", active |-> TRUE,
    grants_roles |-> {"author"},
    steps |-> <<[step |-> 1, key |-> "create_draft", validation |-> "draft_exists"],
                [step |-> 2, key |-> "justify", validation |-> "evidence_justification"]>>],
   [id |-> 3, module_code |-> "TM-OLD", active |-> FALSE,
    grants_roles |-> {"reviewer"},
    steps |-> <<[step |-> 1, key |-> "create_draft", validation |-> "draft_exists"]>>]}

\* module codes a start request may carry
ReqModuleCodes == {"TM-DC", "TM-DRAFT", "TM-OLD", UNDEF}

TrainingCall(op, user, session_id, step_number, module_code, ok, completed) ==
  [op |-> op, user |-> user, session_id |-> session_id,
   step_number |-> step_number, module_code |-> module_code, ok |-> ok,
   completed |-> completed]

\* `TST-TRN-${userId}-${dateStr}`, then `${docId}-${count + 1}`, with the
\* slug `training/${docId}`, for the users of the model on one day
TrainingNames ==
  [alice |-> <<[docId |-> "TST-TRN-alice-D", slug |-> "training/TST-TRN-alice-D"],
               [docId |-> "TST-TRN-alice-D-2", slug |-> "training/TST-TRN-alice-D-2"],
               [docId |-> "TST-TRN-alice-D-3", slug |-> "training/TST-TRN-alice-D-3"],
               [docId |-> "TST-TRN-alice-D-4", slug |-> "training/TST-TRN-alice-D-4"],
               [docId |-> "TST-TRN-alice-D-5", slug |-> "training/TST-TRN-alice-D-5"],
               [docId |-> "TST-TRN-alice-D-6", slug |-> "training/TST-TRN-alice-D-6"]>>,
   bob |-> <<[docId |-> "TST-TRN-bob-D", slug |-> "training/TST-TRN-bob-D"],
             [docId |-> "TST-TRN-bob-D-2", slug |-> "training/TST-TRN-bob-D-2"],
             [docId |-> "TST-TRN-bob-D-3", slug |-> "training/TST-TRN-bob-D-3"],
             [docId |-> "TST-TRN-bob-D-4", slug |-> "training/TST-TRN-bob-D-4"],
             [docId |-> "TST-TRN-bob-D-5", slug |-> "training/TST-TRN-bob-D-5"],
             [docId |-> "TST-TRN-bob-D-6", slug |-> "training/TST-TRN-bob-D-6"]>>]

\* SELECT COUNT(*) FROM i18n.docs WHERE slug LIKE `training/${docId}%`
Collisions(userId) ==
  Cardinality({d \in DOMAIN docs :
                 \E i \in DOMAIN TrainingNames[userId] :
                   docs[d].slug = TrainingNames[userId][i].slug})

\* the document id without the collision suffix.
GenerateDocId_NoSuffix(userId) == TrainingNames[userId][1]

\* the document id the start handler generates: the plain one when there is
\* no collision, the one with suffix count + 1 otherwise
GenerateDocId(userId) == TrainingNames[userId][Collisions(userId) + 1]

\* the text the start handler writes into the training document, a paragraph
\* a trainee may write, and body_md.trim().length of the texts of the model
TrainingBody == "# Training Document ... *Replace this section with your own content during training.*"
ParagraphBody == "A paragraph of meaningful content."
TrimmedLength(body_md) ==
  CASE body_md = TrainingBody -> 86
    [] body_md = ParagraphBody -> 34
    [] body_md \in {"B1", "B2", "B3"} -> 2
    [] OTHER -> 0

\* version '0.1' of a new training document
V01 == <<0, 1>>

\* the validators: the database state each training step asks for
validators ==
  {"draft_exists", "evidence_justification", "draft_in_review",
   "evidence_coi_qualification", "evidence_checklist", "document_effective"}

HasEvidence(qmsDocId, evidence_type) ==
  \E i \in DOMAIN document_evidence :
    /\ document_evidence[i].document_id = qmsDocId
    /\ document_evidence[i].evidence_type = evidence_type
    /\ ~ document_evidence[i].is_superseded

Validate(validation, docsId, qmsDocId) ==
  CASE validation = "draft_exists" ->
         \E draft \in doc_drafts :
           /\ draft.doc_id = docsId
           /\ draft.body_md \notin {NULL, ""}
           /\ TrimmedLength(draft.body_md) >= 20
    [] validation = "evidence_justification" ->
         HasEvidence(qmsDocId, "justification")
    [] validation = "draft_in_review" ->
         \E draft \in doc_drafts :
           draft.doc_id = docsId /\ draft.status = "in_review"
    [] validation = "evidence_coi_qualification" ->
         /\ HasEvidence(qmsDocId, "coi_declaration")
         /\ HasEvidence(qmsDocId, "qualification")
    [] validation = "evidence_checklist" ->
         HasEvidence(qmsDocId, "self_review_checklist")
    [] validation = "document_effective" ->
         /\ qmsDocId \in DOMAIN controlled_documents
         /\ controlled_documents[qmsDocId].status = "effective"

\* SELECT ... FROM qms.training_modules WHERE module_code = ? AND active
ActiveModules(module_code) ==
  {m \in training_modules : m.module_code = module_code /\ m.active}

\* JOIN qms.training_modules tm ON tm.id = ts.module_id
ModuleOf(session) == CHOOSE m \in training_modules : m.id = session.module_id

\* SELECT id FROM qms.training_sessions
\* WHERE user_id = ? AND module_id = ? AND status = 'in_progress'
ExistingSessions(userId, module_id) ==
  {i \in DOMAIN training_sessions :
     /\ training_sessions[i].user_id = userId
     /\ training_sessions[i].module_id = module_id
     /\ training_sessions[i].status = "in_progress"}

\* the owner check answering 409 like the status check.
OwnerRefusal_Conflict(session, userId) ==
  IF session.user_id # userId THEN 409 ELSE 0

\* if (session.user_id !== userId) return { status: 403, ... }
OwnerRefusal(session, userId) ==
  IF session.user_id # userId THEN 403 ELSE 0

\* the owner and status checks of validate-step and abandon without the
\* owner check.
SessionRefusal_AnyUser(session, userId) ==
  IF session.status # "in_progress" THEN 409 ELSE 0

\* the owner and status checks of validate-step and abandon: 0 when they pass
SessionRefusal(session, userId) ==
  IF OwnerRefusal(session, userId) # 0 THEN OwnerRefusal(session, userId)
  ELSE IF session.status # "in_progress" THEN 409
  ELSE 0

(***************************************************************************)
(* POST /@qms/training/session/start                                       *)
(***************************************************************************)
\* the checks of the start handler: 0 when they pass
StartRefusal(module_code) ==
  IF module_code = UNDEF THEN 400
  ELSE IF ActiveModules(module_code) = {} THEN 404
  ELSE 0

\* the four INSERTs of the start handler for the document id it generated.
\* document_id is the key of qms.controlled_documents: a second row with the
\* same id fails the statement, the request ends with 500 and writes nothing.
StartInsert(userId, mod, name) ==
  IF name.docId \in DOMAIN controlled_documents
  THEN /\ resp' = Response("start", NoId, name.docId, 500, {})
       /\ call' = TrainingCall("start", userId, NoId, StepUndef,
                               mod.module_code, FALSE, FALSE)
       /\ UNCHANGED <<tables, trainingTables>>
  ELSE
    LET docsId == Cardinality(DOMAIN docs) + 1
        sessionId == Len(training_sessions) + 1
    IN /\ docs' = [d \in DOMAIN docs \cup {docsId} |->
                     IF d = docsId
                     THEN [slug |-> name.slug, version |-> V01,
                           title |-> "Training Document", body_md |-> TrainingBody,
                           frontmatter |-> FmNull]
                     ELSE docs[d]]
       /\ controlled_documents' =
            [q \in DOMAIN controlled_documents \cup {name.docId} |->
               IF q = name.docId
               THEN [docs_id |-> docsId, status |-> "draft", version |-> V01]
               ELSE controlled_documents[q]]
       /\ document_transitions' = Append(document_transitions,
            [document_id |-> name.docId, action |-> "create",
             from_status |-> NULL, to_status |-> "draft",
             from_version |-> VNull, to_version |-> V01])
       /\ training_sessions' = Append(training_sessions,
            [user_id |-> userId, module_id |-> mod.id,
             training_doc_id |-> name.docId, current_step |-> 1,
             status |-> "in_progress", certificate_id |-> NoId])
       /\ resp' = Response("start", NoId, name.docId, 201, {})
       /\ call' = TrainingCall("start", userId, sessionId, StepUndef,
                               mod.module_code, TRUE, FALSE)
       /\ UNCHANGED <<doc_drafts, nextDraftId, doc_versions, document_evidence,
                      training_step_completions, training_certificates,
                      user_roles>>

\* the handler run from its first statement to its return with no other
\* request in between
StartSession(userId, module_code) ==
  /\ UNCHANGED <<starting, approving, authVars, linkTables, bumped>>
  /\ IF StartRefusal(module_code) # 0
     THEN /\ resp' = Response("start", NoId, NULL, StartRefusal(module_code), {})
          /\ call' = TrainingCall("start", userId, NoId, StepUndef, module_code,
                                  FALSE, FALSE)
          /\ UNCHANGED <<tables, trainingTables>>
     ELSE \E mod \in ActiveModules(module_code) :
       IF ExistingSessions(userId, mod.id) # {}
       THEN /\ resp' = Response("start", NoId, NULL, 409, {})
            /\ call' = TrainingCall("start", userId,
                         CHOOSE i \in ExistingSessions(userId, mod.id) : TRUE,
                         StepUndef, module_code, FALSE, FALSE)
            /\ UNCHANGED <<tables, trainingTables>>
       ELSE /\ Collisions(userId) < Len(TrainingNames[userId])
            /\ StartInsert(userId, mod, GenerateDocId(userId))

(***************************************************************************)
(* The start handler statement by statement, for requests served at the    *)
(* same time.  Each request runs in its own transaction (READ COMMITTED):  *)
(* its SELECTs see what was committed when they run, and its INSERTs       *)
(* become visible when its transaction commits, on return.                 *)
(***************************************************************************)
\* the definition of qms.training_sessions is not among the sources; no
\* statement of the routes names a constraint on (user_id, module_id), and
\* the handler's own guard is the SELECT of ExistingSessions.  TRUE would
\* stand for a unique index over the in_progress sessions of a user and a
\* module, which fails the INSERT of a second one.
SessionIndexRefuses(userId, module_id) == FALSE

\* the request's validation and its existing-session SELECT
BeginStart(rid, userId, module_code) ==
  /\ \A t \in starting : t.rid # rid
  /\ UNCHANGED <<approving, authVars, linkTables, bumped>>
  /\ IF StartRefusal(module_code) # 0
     THEN /\ resp' = Response("start", NoId, NULL, StartRefusal(module_code), {})
          /\ call' = TrainingCall("start", userId, NoId, StepUndef, module_code,
                                  FALSE, FALSE)
          /\ UNCHANGED <<tables, trainingTables, starting>>
     ELSE \E mod \in ActiveModules(module_code) :
       IF ExistingSessions(userId, mod.id) # {}
       THEN /\ resp' = Response("start", NoId, NULL, 409, {})
            /\ call' = TrainingCall("start", userId,
                         CHOOSE i \in ExistingSessions(userId, mod.id) : TRUE,
                         StepUndef, module_code, FALSE, FALSE)
            /\ UNCHANGED <<tables, trainingTables, starting>>
       ELSE /\ starting' = starting \cup
                  {[rid |-> rid, user |-> userId, module_id |-> mod.id,
                    pc |-> "checked", name |-> 0]}
            /\ UNCHANGED <<tables, trainingTables, resp, call>>

\* the request's collision SELECT
CountStart(t) ==
  /\ t.pc = "checked"
  /\ Collisions(t.user) < Len(TrainingNames[t.user])
  /\ starting' = (starting \ {t}) \cup
       {[t EXCEPT !.pc = "counted", !.name = Collisions(t.user) + 1]}
  /\ UNCHANGED <<tables, trainingTables, resp, call, served, approving, authVars,
               linkTables, bumped>>

\* the request's INSERTs and its return
FinishStart(t) ==
  LET mod == CHOOSE m \in training_modules : m.id = t.module_id
  IN /\ t.pc = "counted"
     /\ starting' = starting \ {t}
     /\ UNCHANGED <<served, approving, authVars, linkTables, bumped>>
     /\ IF /\ SessionIndexRefuses(t.user, t.module_id)
           /\ ExistingSessions(t.user, t.module_id) # {}
        THEN /\ resp' = Response("start", NoId, NULL, 500, {})
             /\ call' = TrainingCall("start", t.user, NoId, StepUndef,
                                     mod.module_code, FALSE, FALSE)
             /\ UNCHANGED <<tables, trainingTables>>
        ELSE StartInsert(t.user, mod, TrainingNames[t.user][t.name])

(***************************************************************************)
(* POST /@qms/training/session/abandon                                     *)
(***************************************************************************)
AbandonSession(userId, session_id) ==
  LET refuse(status) ==
        /\ resp' = Response("abandon", NoId, NULL, status, {})
        /\ call' = TrainingCall("abandon", userId, session_id, StepUndef, NULL,
                                FALSE, FALSE)
        /\ UNCHANGED <<tables, trainingTables>>
  IN /\ UNCHANGED <<starting, approving, authVars, linkTables, bumped>>
     /\ IF session_id = NoId THEN refuse(400)
        ELSE IF session_id \notin DOMAIN training_sessions THEN refuse(404)
        ELSE
          LET session == training_sessions[session_id]
              q == session.training_doc_id
          IN IF SessionRefusal(session, userId) # 0
             THEN refuse(SessionRefusal(session, userId))
             ELSE
               /\ training_sessions' =
                    [training_sessions EXCEPT ![session_id].status = "abandoned"]
               /\ controlled_documents' =
                    [c \in DOMAIN controlled_documents |->
                       IF c = q
                       THEN [controlled_documents[c] EXCEPT !.status = "obsolete"]
                       ELSE controlled_documents[c]]
               /\ document_transitions' = Append(document_transitions,
                    [document_id |-> q, action |-> "obsolete",
                     from_status |-> NULL, to_status |-> "obsolete",
                     from_version |-> VNull, to_version |-> VNull])
               /\ resp' = Response("abandon", NoId, q, 200, {})
               /\ call' = TrainingCall("abandon", userId, session_id, StepUndef,
                                       NULL, TRUE, FALSE)
               /\ UNCHANGED <<docs, doc_drafts, nextDraftId, doc_versions,
                              document_evidence, training_step_completions,
                              training_certificates, user_roles>>

(***************************************************************************)
(* POST /@qms/training/session/validate-step                               *)
(***************************************************************************)
\* the roles of every module granted, whatever the module.
GrantRoles_Everything(roles, userId, grants_roles) ==
  {r \in roles : r.user_id # userId}
    \cup {[user_id |-> userId, role_code |-> roleCode,
           granted_by |-> "training-system", active |-> TRUE]
          : roleCode \in UNION {m.grants_roles : m \in training_modules}}

\* INSERT INTO qms.user_roles ... ON CONFLICT (user_id, role_code) DO UPDATE
\* SET active = true, granted_by = EXCLUDED.granted_by, for each role
GrantRoles(roles, userId, grants_roles) ==
  {r \in roles : ~ (r.user_id = userId /\ r.role_code \in grants_roles)}
    \cup {[user_id |-> userId, role_code |-> roleCode,
           granted_by |-> "training-system", active |-> TRUE]
          : roleCode \in grants_roles}

\* the session advanced by two steps.
NextStep_Skip(step_number) == step_number + 2

\* the step after the one that was validated
NextStep(step_number) == step_number + 1

\* the completion flow entered one step early.
IsLastStep_OneEarly(step_number, steps) == step_number = Len(steps) - 1

\* const isLastStep = step_number === totalSteps
IsLastStep(step_number, steps) == step_number = Len(steps)

ValidateStep(userId, session_id, step_number) ==
  LET refuse(status) ==
        /\ resp' = Response("validate", NoId, NULL, status, {})
        /\ call' = TrainingCall("validate", userId, session_id, step_number,
                                NULL, FALSE, FALSE)
        /\ UNCHANGED <<tables, trainingTables>>
  IN /\ UNCHANGED <<starting, approving, authVars, linkTables, bumped>>
     /\ IF session_id = NoId \/ step_number = StepUndef THEN refuse(400)
        ELSE IF session_id \notin DOMAIN training_sessions THEN refuse(404)
        ELSE
          LET session == training_sessions[session_id]
              mod == ModuleOf(session)
              steps == mod.steps
              stepDefs == {i \in DOMAIN steps : steps[i].step = step_number}
              q == session.training_doc_id
          IN IF SessionRefusal(session, userId) # 0
             THEN refuse(SessionRefusal(session, userId))
             ELSE IF step_number # session.current_step THEN refuse(409)
             ELSE IF stepDefs = {} THEN refuse(400)
             ELSE IF \/ q \notin DOMAIN controlled_documents
                     \/ controlled_documents[q].docs_id \notin DOMAIN docs
                  THEN refuse(500)
             ELSE
               LET stepDef == steps[CHOOSE i \in stepDefs :
                                      \A j \in stepDefs : i <= j]
                   docsId == controlled_documents[q].docs_id
               IN IF stepDef.validation \notin validators THEN refuse(500)
                  ELSE IF ~ Validate(stepDef.validation, docsId, q)
                  THEN \* answered 200 with ok: false
                       /\ resp' = Response("validate", NoId, q, 200, {})
                       /\ call' = TrainingCall("validate", userId, session_id,
                                    step_number, mod.module_code, FALSE, FALSE)
                       /\ UNCHANGED <<tables, trainingTables>>
                  ELSE
                    LET completions ==
                          IF \E c \in training_step_completions :
                               /\ c.session_id = session_id
                               /\ c.step_number = step_number
                          THEN training_step_completions
                          ELSE training_step_completions \cup
                                 {[session_id |-> session_id,
                                   step_number |-> step_number,
                                   step_key |-> stepDef.key]}
                        isLastStep == IsLastStep(step_number, steps)
                        certificateId == Len(training_certificates) + 1
                    IN /\ training_step_completions' = completions
                       /\ UNCHANGED tables
                       /\ resp' = Response("validate", NoId, q, 200, {})
                       /\ call' = TrainingCall("validate", userId, session_id,
                                    step_number, mod.module_code, TRUE, isLastStep)
                       /\ IF isLastStep
                          THEN /\ training_certificates' =
                                    Append(training_certificates,
                                      [certificate_id |-> certificateId,
                                       session_id |-> session_id,
                                       user_id |-> userId,
                                       module_code |-> mod.module_code,
                                       qualified_for |-> mod.grants_roles])
                               /\ training_sessions' =
                                    [training_sessions EXCEPT ![session_id] =
                                       [@ EXCEPT !.status = "completed",
                                                 !.current_step = NextStep(step_number),
                                                 !.certificate_id = certificateId]]
                               /\ user_roles' =
                                    GrantRoles(user_roles, userId, mod.grants_roles)
                          ELSE /\ training_sessions' =
                                    [training_sessions EXCEPT
                                       ![session_id].current_step =
                                          NextStep(step_number)]
                               /\ UNCHANGED <<training_certificates, user_roles>>

(***************************************************************************)
(* Requests and specifications.                                            *)
(***************************************************************************)
\* bodies of POST /@docs/save
SaveBodies ==
  {[doc_id |-> 1, body_md |-> "B3", version_bump |-> "patch", change_summary |-> "cs"],
   [doc_id |-> 1, body_md |-> "B3", version_bump |-> "major", change_summary |-> "cs"],
   [doc_id |-> 2, body_md |-> "B3", version_bump |-> "minor", change_summary |-> "cs"],
   [doc_id |-> 3, body_md |-> "B3", version_bump |-> "minor", change_summary |-> "cs"],
   [doc_id |-> 1, body_md |-> "B3", version_bump |-> "bogus", change_summary |-> "cs"],
   [doc_id |-> 1, body_md |-> "B3", version_bump |-> "patch", change_summary |-> UNDEF]}

\* bodies of PUT /@qms/register/:document_id
RegisterBodies ==
  {[status |-> "obsolete", version |-> VUndef, docs_id |-> IdUndef],
   [status |-> UNDEF, version |-> V11, docs_id |-> IdUndef],
   [status |-> UNDEF, version |-> VUndef, docs_id |-> 2],
   [status |-> UNDEF, version |-> VUndef, docs_id |-> IdUndef]}

\* bodies of POST /@qms/register/:document_id/transition
TransitionBodies ==
  {[action |-> "review", to_status |-> UNDEF, to_version |-> VUndef],
   [action |-> "retire", to_status |-> "obsolete", to_version |-> VUndef],
   [action |-> "revise", to_status |-> "effective", to_version |-> V11],
   [action |-> UNDEF, to_status |-> "obsolete", to_version |-> VUndef]}

\* bodies of POST /@qms/evidence
EvidenceBodies ==
  {[transition_id |-> NoId, evidence_type |-> "review_comment", evidence_data |-> "data"],
   [transition_id |-> 1, evidence_type |-> "review_comment", evidence_data |-> "data"],
   [transition_id |-> NoId, evidence_type |-> "justification", evidence_data |-> "data"],
   [transition_id |-> NoId, evidence_type |-> "bogus", evidence_data |-> "data"],
   [transition_id |-> NoId, evidence_type |-> "review_comment", evidence_data |-> UNDEF]}

\* a request is served: the run-length bound and the handler.  The framework
\* commits the request's transaction when the handler returns a response,
\* whatever its status, so a step holds every statement the handler executed
\* before it returned.
Serve(limit, handler) ==
  /\ served < limit
  /\ served' = served + 1
  /\ handler

Put(limit) ==
  /\ \E slug \in ReqSlugs, b \in PutBodies, justification \in BOOLEAN :
         Serve(limit, PutDraft(slug, b.version, b.title, b.body_md, b.frontmatter,
                               justification))
  /\ UNCHANGED besideDocs

Delete(limit) ==
  /\ \E slug \in ReqSlugs : Serve(limit, DeleteDraft(slug))
  /\ UNCHANGED besideDocs

Submit(limit) ==
  /\ \E slug \in ReqSlugs, coi_declaration \in BOOLEAN, qualification \in BOOLEAN :
         Serve(limit, SubmitDraft(slug, coi_declaration, qualification))
  /\ UNCHANGED besideDocs

Reject(limit) ==
  /\ \E slug \in ReqSlugs, notes \in {"fix it", UNDEF} :
         Serve(limit, RejectDraft(slug, notes))
  /\ UNCHANGED besideDocs

Approve(limit) ==
  /\ \E slug \in ReqSlugs, checklist \in BOOLEAN,
          approval_justification \in BOOLEAN, change_classification \in BOOLEAN :
         Serve(limit, ApproveDraft(slug, checklist, approval_justification,
                                   change_classification))
  /\ UNCHANGED besideDocs

Save(limit) ==
  /\ \E b \in SaveBodies :
         Serve(limit, SaveDoc(b.doc_id, b.body_md, b.version_bump, b.change_summary))
  /\ UNCHANGED besideDocs

Register(limit) ==
  /\ \E document_id \in ReqQmsIds, b \in RegisterBodies :
         Serve(limit, PutRegister(document_id, b.status, b.version, b.docs_id))
  /\ UNCHANGED besideDocs

Transition(limit) ==
  /\ \E document_id \in ReqQmsIds, b \in TransitionBodies :
         Serve(limit, PostTransition(document_id, b.action, b.to_status, b.to_version))
  /\ UNCHANGED besideDocs

Evidence(limit) ==
  /\ \E document_id \in {"SOP-A", "SOP-B", "SOP-X", UNDEF}, b \in EvidenceBodies :
         Serve(limit, PostEvidence(document_id, b.transition_id, b.evidence_type,
                                   b.evidence_data))
  /\ UNCHANGED besideDocs

\* the draft workflow
Next ==
  \/ Put(MaxRequests)
  \/ Delete(MaxRequests)
  \/ Submit(MaxRequests)
  \/ Reject(MaxRequests)
  \/ Approve(MaxRequests)

Spec == Init /\ [][Next]_vars

\* the publishing path of the draft workflow: save, submit, approve
NextPublish ==
  \/ Put(MaxPublishRequests)
  \/ Submit(MaxPublishRequests)
  \/ Approve(MaxPublishRequests)

SpecPublish == Init /\ [][NextPublish]_vars

\* the draft workflow next to the save and register routes
NextRegister ==
  \/ Put(MaxQmsRequests)
  \/ Submit(MaxQmsRequests)
  \/ Approve(MaxQmsRequests)
  \/ Save(MaxQmsRequests)
  \/ Register(MaxQmsRequests)
  \/ Transition(MaxQmsRequests)

SpecRegister == Init /\ [][NextRegister]_vars

\* the draft workflow next to the transition and standalone evidence routes
NextEvidence ==
  \/ Put(MaxQmsRequests)
  \/ Delete(MaxQmsRequests)
  \/ Submit(MaxQmsRequests)
  \/ Reject(MaxQmsRequests)
  \/ Approve(MaxQmsRequests)
  \/ Transition(MaxQmsRequests)
  \/ Evidence(MaxQmsRequests)

SpecEvidence == Init /\ [][NextEvidence]_vars

(***************************************************************************)
(* Training requests and specifications.                                   *)
(***************************************************************************)
\* session ids a request may carry: none, those that exist, one that does not
ReqSessionIds == 0..(Len(training_sessions) + 1)

\* step numbers a request may carry for a session: none, the session's
\* current step, the one after it
ReqSteps(session_id) ==
  IF session_id \in DOMAIN training_sessions
  THEN {StepUndef, training_sessions[session_id].current_step,
        training_sessions[session_id].current_step + 1}
  ELSE {1}

\* the slug of the training document of a session
TrainingSlugOf(session_id) ==
  docs[controlled_documents[training_sessions[session_id].training_doc_id].docs_id].slug

\* bodies of PUT /@docs/draft a trainee sends: a paragraph, a stub
TrainingPutBodies ==
  {[version |-> V10, title |-> UNDEF, body_md |-> ParagraphBody,
    frontmatter |-> FmUndef],
   [version |-> V10, title |-> UNDEF, body_md |-> "B2", frontmatter |-> FmUndef]}

Start(limit, users, codes) ==
  \E userId \in users, module_code \in codes :
    Serve(limit, StartSession(userId, module_code))

ValidateAny(limit, users) ==
  \E userId \in users, session_id \in ReqSessionIds :
    \E step_number \in ReqSteps(session_id) :
      Serve(limit, ValidateStep(userId, session_id, step_number))

Abandon(limit, users) ==
  \E userId \in users, session_id \in ReqSessionIds :
    Serve(limit, AbandonSession(userId, session_id))

\* a validate-step request for a session that exists
ValidateOwn(limit, users) ==
  \E userId \in users, session_id \in DOMAIN training_sessions :
    \E step_number \in ReqSteps(session_id) \ {StepUndef} :
      Serve(limit, ValidateStep(userId, session_id, step_number))

PutTraining(limit, bodies) ==
  /\ \E session_id \in DOMAIN training_sessions, b \in bodies,
        justification \in BOOLEAN :
       Serve(limit, PutDraft(TrainingSlugOf(session_id), b.version, b.title,
                             b.body_md, b.frontmatter, justification))
  /\ UNCHANGED besideDocs

SubmitTraining(limit) ==
  /\ \E session_id \in DOMAIN training_sessions, declared \in BOOLEAN :
       Serve(limit, SubmitDraft(TrainingSlugOf(session_id), declared, declared))
  /\ UNCHANGED besideDocs

ApproveTraining(limit) ==
  /\ \E session_id \in DOMAIN training_sessions, checklist \in BOOLEAN :
       Serve(limit, ApproveDraft(TrainingSlugOf(session_id), checklist, FALSE,
                                 FALSE))
  /\ UNCHANGED besideDocs

\* trainees working on the modules
NextTraining ==
  \/ Start(MaxTrainingRequests, Users, ReqModuleCodes \ {"TM-DC"})
  \/ ValidateAny(MaxTrainingRequests, Users)
  \/ Abandon(MaxTrainingRequests, Users)
  \/ PutTraining(MaxTrainingRequests, TrainingPutBodies)

SpecTraining == Init /\ [][NextTraining]_vars

\* one trainee taking the document-control module through the draft workflow
ReqIds == 1..MaxInFlight

Begin(limit, users, codes) ==
  \E rid \in ReqIds, userId \in users, module_code \in codes :
    Serve(limit, BeginStart(rid, userId, module_code))

Count == \E t \in starting : CountStart(t)

Finish == \E t \in starting : FinishStart(t)

NextConcurrent ==
  \/ Begin(MaxConcurrentRequests, Users, {"TM-DRAFT", UNDEF})
  \/ Count
  \/ Finish
  \/ ValidateAny(MaxConcurrentRequests, Users)
  \/ Abandon(MaxConcurrentRequests, Users)

SpecConcurrent == Init /\ [][NextConcurrent]_vars

\* versions of non-negative integer parts and bump values of the calls
BumpVersions ==
  UNION {[1..n -> 0..MaxPart] : n \in 1..MaxParts}

BumpValues == {"major", "minor", "patch", "bogus", UNDEF}

\* a call of bumpVersion is about to be made, on the server or in the dialog
InitBump ==
  /\ InitDatabase
  /\ bumped \in {[version |-> version, bump |-> bump,
                  result |-> VNull, preview |-> VNull]
                 : version \in BumpVersions, bump \in BumpValues}

\* the call returns (or throws)
CallBumpVersion ==
  /\ bumped.result = VNull
  /\ bumped' = [bumped EXCEPT
                  !.result = bumpVersion(bumped.version, bumped.bump),
                  !.preview = DocSaveDialog_bumpVersion(bumped.version, bumped.bump)]
  /\ UNCHANGED <<tables, resp, served, trainingTables, call, starting, approving, authVars, linkTables>>

NextBump ==
  \/ CallBumpVersion
  \/ Save(MaxSaveRequests)

SpecBump == InitBump /\ [][NextBump]_vars

\* document ids and relationship types of the link requests
ReqLinkDocIds == QmsIds \cup {UNDEF}

ReqLinkTypes == ref_relationship_types \cup {"bogus", UNDEF}

Link(limit) ==
  /\ \E source_doc_id \in ReqLinkDocIds, target_doc_id \in ReqLinkDocIds,
        relationship_type \in ReqLinkTypes :
       Serve(limit, PostLink(source_doc_id, target_doc_id, relationship_type))
  /\ UNCHANGED <<tables, trainingTables, call, starting, approving, authVars, bumped>>

Unlink(limit) ==
  /\ \E id \in 1..nextLinkId : Serve(limit, DeleteLink(id))
  /\ UNCHANGED <<tables, trainingTables, call, starting, approving, authVars, bumped>>

NextLinks ==
  \/ Link(MaxLinkRequests)
  \/ Unlink(MaxLinkRequests)

SpecLinks == Init /\ [][NextLinks]_vars

\* the routes of the documents, drafts, register, evidence, links and
\* training side by side
NextAll ==
  \/ Put(MaxAnyRequests)
  \/ Delete(MaxAnyRequests)
  \/ Submit(MaxAnyRequests)
  \/ Reject(MaxAnyRequests)
  \/ Approve(MaxAnyRequests)
  \/ Save(MaxAnyRequests)
  \/ Register(MaxAnyRequests)
  \/ Transition(MaxAnyRequests)
  \/ Evidence(MaxAnyRequests)
  \/ Link(MaxAnyRequests)
  \/ Unlink(MaxAnyRequests)
  \/ Start(MaxAnyRequests, {"alice"}, {"TM-DRAFT", "TM-OLD", UNDEF})
  \/ ValidateAny(MaxAnyRequests, Users)
  \/ Abandon(MaxAnyRequests, Users)

SpecAll == Init /\ [][NextAll]_vars

ApproveIds == 1..MaxApproveRequests

Read(limit) ==
  /\ \E rid \in ApproveIds, slug \in ReqSlugs, checklist \in BOOLEAN :
       Serve(limit, ReadApprove(rid, slug, checklist, FALSE, FALSE))
  /\ UNCHANGED <<trainingTables, call, starting, authVars, linkTables, bumped>>

Write ==
  /\ \E t \in approving : WriteApprove(t)
  /\ UNCHANGED <<served, trainingTables, call, starting, authVars,
                 linkTables, bumped>>

\* the draft workflow with approve requests served at the same time
NextApprove ==
  \/ Put(MaxPublishRunRequests)
  \/ Submit(MaxPublishRunRequests)
  \/ Reject(MaxPublishRunRequests)
  \/ Read(MaxPublishRunRequests)
  \/ Write

SpecApprove == Init /\ [][NextApprove]_vars

AddToken(limit) ==
  /\ \E token \in Tokens :
       /\ served < limit
       /\ served' = served + 1
       /\ user_row' = addToken(token, user_row, now)
       /\ authOp' = [op |-> "addToken", token |-> token]
  /\ UNCHANGED <<tables, resp, trainingTables, call, starting, approving, now,
                 linkTables, bumped>>

RemoveToken(limit) ==
  /\ \E token \in Tokens :
       /\ served < limit
       /\ served' = served + 1
       /\ user_row' = removeToken(token, user_row)
       /\ authOp' = [op |-> "removeToken", token |-> token]
  /\ UNCHANGED <<tables, resp, trainingTables, call, starting, approving, now,
                 linkTables, bumped>>

\* time passes between two calls
Tick ==
  /\ now < MaxTime
  /\ now' = now + 1
  /\ UNCHANGED <<tables, resp, served, trainingTables, call, starting, approving,
                 user_row, authOp, linkTables, bumped>>

NextAuth ==
  \/ AddToken(MaxAuthRequests)
  \/ RemoveToken(MaxAuthRequests)
  \/ Tick

SpecAuth == Init /\ [][NextAuth]_vars

NextCertify ==
  \/ Start(MaxCertifyRequests, {"alice"}, {"TM-DC"})
  \/ ValidateOwn(MaxCertifyRequests, {"alice"})
  \/ PutTraining(MaxCertifyRequests, TrainingPutBodies)
  \/ SubmitTraining(MaxCertifyRequests)
  \/ ApproveTraining(MaxCertifyRequests)

SpecCertify == Init /\ [][NextCertify]_vars

(***************************************************************************)
(* Properties of the draft workflow.                                       *)
(***************************************************************************)

\* C1: after any sequence of draft requests i18n.doc_drafts holds at most
\* one draft row per document (a PUT for a document that has a draft updates
\* that row).
C1_AtMostOneDraftPerDocument ==
  \A d \in DOMAIN docs : Cardinality({r \in doc_drafts : r.doc_id = d}) <= 1

\* a PUT has updated the existing draft of a document
C1_Witness ==
  /\ resp.op = "put"
  /\ resp.status = 200
  /\ \E r \in doc_drafts : r.doc_id = resp.doc /\ r.updated_at # r.created_at

\* C2: the only status changes of a draft are draft -> in_review and
\* rejected -> in_review (submit), in_review -> rejected (reject) and
\* rejected -> draft (PUT); a draft row starts as 'draft'; the document is
\* written, and the draft removed by approve, only from in_review.
C2_StatusLifecycle ==
  [][\A d \in DOMAIN docs :
       /\ \A r \in doc_drafts, r2 \in doc_drafts' :
            (r.id = r2.id /\ r.status # r2.status) =>
              \/ /\ resp'.op = "submit"
                 /\ r.status \in {"draft", "rejected"}
                 /\ r2.status = "in_review"
              \/ /\ resp'.op = "reject"
                 /\ r.status = "in_review"
                 /\ r2.status = "rejected"
              \/ /\ resp'.op = "put"
                 /\ r.status = "rejected"
                 /\ r2.status = "draft"
       /\ \A r2 \in doc_drafts' :
            (~ \E r \in doc_drafts : r.id = r2.id) =>
              (r2.status = "draft" /\ resp'.op = "put")
       /\ docs'[d] # docs[d] =>
            /\ resp'.op = "approve"
            /\ \E r \in doc_drafts : r.doc_id = d /\ r.status = "in_review"
       /\ \A r \in doc_drafts :
            (r.doc_id = d /\ ~ \E r2 \in doc_drafts' : r2.id = r.id) =>
              \/ resp'.op = "delete"
              \/ resp'.op = "approve" /\ r.status = "in_review"
    ]_vars

\* a rejected draft was saved again and is a 'draft' once more, with the
\* reviewer notes cleared
C2_Witness ==
  /\ resp.op = "put"
  /\ resp.status = 200
  /\ served >= 4
  /\ \E r \in doc_drafts :
       r.doc_id = resp.doc /\ r.status = "draft" /\ r.reviewer_notes = NULL

\* C3: submit, reject and approve answer 404 when the document has no draft
\* and 409 when its draft is not in a status they accept (submit: draft or
\* rejected; reject, approve: in_review), and a 404 or 409 leaves every
\* table as it was.
C3_NotFoundAndConflict ==
  [][resp'.op \in {"submit", "reject", "approve"} =>
       /\ resp'.status \in {404, 409} => UNCHANGED tables
       /\ (resp'.status # 400 /\ resp'.doc # NoId) =>
            LET rows == {r \in doc_drafts : r.doc_id = resp'.doc}
                accepted == IF resp'.op = "submit" THEN {"draft", "rejected"}
                            ELSE {"in_review"}
            IN /\ rows = {} => resp'.status = 404
               /\ (rows # {} /\ \A r \in rows : r.status \notin accepted) =>
                    resp'.status = 409
    ]_vars

\* a reject was refused because the draft was not under review
C3_Witness ==
  /\ resp.op = "reject"
  /\ resp.status = 409
  /\ \E r \in doc_drafts : r.doc_id = resp.doc /\ r.status # "in_review"

\* C4: on a successful approve i18n.docs takes the draft's version, title,
\* body and frontmatter, the content and version i18n.docs had before the
\* request are a row of i18n.doc_versions afterwards, and the document has
\* no draft row any more.
C4_ApprovePublishes ==
  [][(resp'.op = "approve" /\ resp'.status = 200) =>
       \E draft \in doc_drafts :
         LET d == draft.doc_id
             before == docs[d]
             after == docs'[d]
         IN /\ d = resp'.doc
            /\ after.version = draft.version
            /\ after.title = draft.title
            /\ after.body_md = draft.body_md
            /\ after.frontmatter = draft.frontmatter
            /\ \E v \in doc_versions' :
                 /\ v.doc_id = d
                 /\ v.version = before.version
                 /\ v.title = before.title
                 /\ v.body_md = before.body_md
                 /\ v.frontmatter = before.frontmatter
            /\ ~ \E r \in doc_drafts' : r.doc_id = d
    ]_vars

\* C5: an approve of a registered document records an 'approve' transition
\* and makes the register row 'effective' only if the document has a
\* non-superseded evidence row of each of justification, coi_declaration and
\* qualification; otherwise the answer is 422 and names the missing types.
C5_EvidenceGate ==
  [][\A q \in DOMAIN controlled_documents :
       (resp'.op = "approve" /\ resp'.doc # NoId
        /\ controlled_documents[q].docs_id = resp'.doc) =>
         LET has(t) == \E i \in DOMAIN document_evidence :
                         /\ document_evidence[i].document_id = q
                         /\ document_evidence[i].evidence_type = t
                         /\ ~ document_evidence[i].is_superseded
             missing == {t \in {"justification", "coi_declaration",
                                "qualification"} : ~ has(t)}
             n == Len(document_transitions)
         IN /\ resp'.status = 200 =>
                 /\ missing = {}
                 /\ Len(document_transitions') = n + 1
                 /\ document_transitions'[n + 1].document_id = q
                 /\ document_transitions'[n + 1].action = "approve"
                 /\ controlled_documents'[q].status = "effective"
            /\ document_transitions' # document_transitions => missing = {}
            /\ (missing # {} /\ resp'.status \notin {400, 404, 409}) =>
                 /\ resp'.status = 422
                 /\ resp'.missing = missing
                 /\ UNCHANGED <<document_transitions, controlled_documents>>
            /\ resp'.status = 422 => missing # {}
    ]_vars

\* a registered document with all three evidence types was approved
C5_Witness ==
  /\ resp.op = "approve"
  /\ resp.status = 200
  /\ \E q \in DOMAIN controlled_documents :
       /\ controlled_documents[q].docs_id = resp.doc
       /\ \A t \in {"justification", "coi_declaration", "qualification"} :
            \E i \in DOMAIN document_evidence :
              /\ document_evidence[i].document_id = q
              /\ document_evidence[i].evidence_type = t
       /\ \E i \in DOMAIN document_transitions :
            /\ document_transitions[i].document_id = q
            /\ document_transitions[i].action = "approve"

\* C6: an approve answered 422 publishes nothing: i18n.docs,
\* i18n.doc_versions and qms.controlled_documents are as before the request
\* and the draft is still there, in_review.
C6_GateLeavesNothingPublished ==
  [][(resp'.op = "approve" /\ resp'.status = 422) =>
       /\ UNCHANGED <<docs, doc_versions, controlled_documents>>
       /\ \E r \in doc_drafts' : r.doc_id = resp'.doc /\ r.status = "in_review"
    ]_vars

\* C7: a draft request for a document without a register row inserts no
\* qms.document_evidence and no qms.document_transitions row.
C7_NoEvidenceForUnregistered ==
  [][(/\ resp'.op \in {"put", "delete", "submit", "reject", "approve"}
      /\ resp'.doc # NoId
      /\ \A q \in DOMAIN controlled_documents :
           controlled_documents[q].docs_id # resp'.doc) =>
       UNCHANGED <<document_evidence, document_transitions>>
    ]_vars

\* the draft of a document that is not registered was approved
C7_Witness ==
  /\ resp.op = "approve"
  /\ resp.status = 200
  /\ \A q \in DOMAIN controlled_documents :
       controlled_documents[q].docs_id # resp.doc
  /\ docs[resp.doc].version # V10 \/ docs[resp.doc].title # "T1"

C9_ChangesAreLogged ==
  [][\A q \in DOMAIN controlled_documents :
       LET old == controlled_documents[q]
           new == controlled_documents'[q]
           n == Len(document_transitions)
       IN (new.status # old.status \/ new.version # old.version) =>
            /\ Len(document_transitions') > n
            /\ \E i \in (n + 1)..Len(document_transitions') :
                 LET t == document_transitions'[i]
                 IN /\ t.document_id = q
                    /\ new.status # old.status => t.to_status = new.status
                    /\ new.version # old.version => t.to_version = new.version
    ]_vars

\* C10 (as claimed): every qms.document_evidence row carries a transition_id
\* that refers to a qms.document_transitions row of the same document.
C10_EvidenceHasTransition ==
  \A i \in DOMAIN document_evidence :
    LET de == document_evidence[i]
    IN /\ de.transition_id \in DOMAIN document_transitions
       /\ document_transitions[de.transition_id].document_id = de.document_id

\* C10: the transition_id of every qms.document_evidence row is either null
\* or refers to a qms.document_transitions row of the same document.
C10_TransitionIdNullOrValid ==
  \A i \in DOMAIN document_evidence :
    LET de == document_evidence[i]
    IN \/ de.transition_id = NoId
       \/ /\ de.transition_id \in DOMAIN document_transitions
          /\ document_transitions[de.transition_id].document_id = de.document_id

\* POST /@qms/evidence has recorded a row for a transition of its document
\* while transitions of another document exist
C10_Witness ==
  /\ resp.op = "evidence"
  /\ resp.status = 201
  /\ \E i \in DOMAIN document_evidence :
       /\ document_evidence[i].transition_id # NoId
       /\ document_evidence[i].document_id = resp.qdoc
  /\ \E j \in DOMAIN document_transitions :
       document_transitions[j].document_id # resp.qdoc

(***************************************************************************)
(* Properties of the training routes.                                      *)
(***************************************************************************)

\* C11: a session starts at current_step 1; its current_step never
\* decreases and changes only by one, in a validate-step request of its owner
\* for exactly that step, which records the step's completion; a request of
\* the owner of an in_progress session for another step is answered 409 and
\* changes nothing; a step whose validator reports ok=false leaves the
\* session and the completions as they were.
C11_StepsInOrder ==
  [][/\ \A i \in DOMAIN training_sessions' :
          IF i \notin DOMAIN training_sessions
          THEN training_sessions'[i].current_step = 1
          ELSE LET old == training_sessions[i]
                   new == training_sessions'[i]
               IN /\ new.current_step \in
                       {old.current_step, old.current_step + 1}
                  /\ new.current_step = old.current_step + 1 =>
                       /\ call'.op = "validate"
                       /\ call'.session_id = i
                       /\ call'.user = old.user_id
                       /\ call'.step_number = old.current_step
                       /\ call'.ok
                       /\ \E c \in training_step_completions' :
                            /\ c.session_id = i
                            /\ c.step_number = old.current_step
     /\ (/\ resp'.op = "validate"
         /\ call'.op = "validate"
         /\ call'.session_id \in DOMAIN training_sessions) =>
          LET old == training_sessions[call'.session_id]
              new == training_sessions'[call'.session_id]
          IN /\ (/\ call'.step_number \notin {StepUndef, old.current_step}
                 /\ old.user_id = call'.user
                 /\ old.status = "in_progress") =>
                  /\ resp'.status = 409
                  /\ UNCHANGED <<training_sessions, training_step_completions>>
             /\ call'.step_number # old.current_step =>
                  /\ ~ call'.ok
                  /\ resp'.status \in {400, 403, 409}
                  /\ UNCHANGED <<training_sessions, training_step_completions>>
             /\ call'.ok => new.current_step = old.current_step + 1
             /\ ~ call'.ok =>
                  UNCHANGED <<training_sessions, training_step_completions>>
    ]_vars

\* the first step of a session was validated and the session is at step 2
C11_Witness ==
  /\ call.op = "validate"
  /\ call.ok
  /\ ~ call.completed
  /\ call.session_id \in DOMAIN training_sessions
  /\ training_sessions[call.session_id].current_step = 2
  /\ training_sessions[call.session_id].status = "in_progress"

C13_RolesOnlyByCompletion ==
  [][/\ \A r \in user_roles' \ user_roles :
          /\ r.granted_by = "training-system"
          /\ r.active
          /\ resp'.op = "validate"
          /\ call'.op = "validate"
          /\ call'.completed
          /\ call'.user = r.user_id
          /\ call'.session_id \in DOMAIN training_sessions
          /\ training_sessions[call'.session_id].user_id = r.user_id
          /\ training_sessions[call'.session_id].status = "in_progress"
          /\ training_sessions'[call'.session_id].status = "completed"
          /\ r.role_code \in
               ModuleOf(training_sessions[call'.session_id]).grants_roles
     /\ (resp'.op = "validate" /\ call'.op = "validate" /\ call'.completed) =>
          \A roleCode \in
               ModuleOf(training_sessions[call'.session_id]).grants_roles :
            [user_id |-> call'.user, role_code |-> roleCode,
             granted_by |-> "training-system", active |-> TRUE] \in user_roles'
     /\ (\/ resp'.op = "abandon"
         \/ resp'.op = "start"
         \/ resp'.op = "validate" /\ ~ call'.completed) =>
          UNCHANGED user_roles
    ]_vars

\* bob completed the drafting module and his revoked author role is active
\* again, granted by the training system
C13_Witness ==
  /\ call.op = "validate"
  /\ call.completed
  /\ call.user = "bob"
  /\ [user_id |-> "bob", role_code |-> "author",
      granted_by |-> "training-system", active |-> TRUE] \in user_roles
  /\ \A r \in user_roles : r.user_id = "bob" => r.granted_by # "admin"

\* C15: a validate-step or abandon request on a session of another user is
\* answered 403 and one on a completed or abandoned session 409; both leave
\* the session, the completions, the certificates, the roles and the
\* training document as they were; no request changes a completed or
\* abandoned session.
C15_OwnerAndTerminal ==
  [][/\ (/\ resp'.op \in {"validate", "abandon"}
         /\ call'.op = resp'.op
         /\ call'.session_id \in DOMAIN training_sessions
         /\ call'.op = "validate" => call'.step_number # StepUndef) =>
          LET old == training_sessions[call'.session_id]
          IN /\ old.user_id # call'.user =>
                  /\ resp'.status = 403
                  /\ UNCHANGED <<tables, trainingTables>>
             /\ (/\ old.user_id = call'.user
                 /\ old.status \in {"completed", "abandoned"}) =>
                  /\ resp'.status = 409
                  /\ UNCHANGED <<tables, trainingTables>>
     /\ \A i \in DOMAIN training_sessions :
          training_sessions[i].status \in {"completed", "abandoned"} =>
            training_sessions'[i] = training_sessions[i]
    ]_vars

\* the owner asked to validate a step of a session that is completed
C15_Witness ==
  /\ resp.op = "validate"
  /\ resp.status = 409
  /\ call.session_id \in DOMAIN training_sessions
  /\ training_sessions[call.session_id].status = "completed"
  /\ training_sessions[call.session_id].user_id = call.user

\* C16: a successful abandon marks the session 'abandoned' and its training
\* document 'obsolete' in the register, and records one 'obsolete'
\* transition; a user without a session in progress for an active module
\* can start one, and a started session gets a training document id that no
\* earlier document or session has.
C16_AbandonThenRestart ==
  [][/\ (resp'.op = "abandon" /\ resp'.status = 200) =>
          LET i == call'.session_id
              q == training_sessions[i].training_doc_id
          IN /\ training_sessions[i].status = "in_progress"
             /\ training_sessions'[i].status = "abandoned"
             /\ controlled_documents'[q].status = "obsolete"
             /\ Len(document_transitions') = Len(document_transitions) + 1
             /\ document_transitions'[Len(document_transitions')].document_id = q
             /\ document_transitions'[Len(document_transitions')].action = "obsolete"
             /\ document_transitions'[Len(document_transitions')].to_status = "obsolete"
             /\ \A k \in DOMAIN document_transitions :
                  document_transitions'[k] = document_transitions[k]
     /\ (resp'.op = "start" /\ call'.op = "start") =>
          /\ (/\ ActiveModules(call'.module_code) # {}
              /\ \A m \in ActiveModules(call'.module_code) :
                   ExistingSessions(call'.user, m.id) = {}) =>
               resp'.status = 201
          /\ resp'.status = 201 =>
               /\ Len(training_sessions') = Len(training_sessions) + 1
               /\ LET new == training_sessions'[Len(training_sessions')]
                  IN /\ new.user_id = call'.user
                     /\ new.status = "in_progress"
                     /\ new.training_doc_id \notin DOMAIN controlled_documents
                     /\ new.training_doc_id \in DOMAIN controlled_documents'
                     /\ \A i \in DOMAIN training_sessions :
                          training_sessions[i].training_doc_id
                            # new.training_doc_id
    ]_vars

\* a user abandoned a session and started the same module again
C16_Witness ==
  /\ resp.op = "start"
  /\ resp.status = 201
  /\ \E i, j \in DOMAIN training_sessions :
       /\ i < j
       /\ j = Len(training_sessions)
       /\ training_sessions[i].status = "abandoned"
       /\ training_sessions[j].status = "in_progress"
       /\ training_sessions[i].user_id = training_sessions[j].user_id
       /\ training_sessions[i].module_id = training_sessions[j].module_id
       /\ training_sessions[i].training_doc_id
            # training_sessions[j].training_doc_id
       /\ controlled_documents[training_sessions[i].training_doc_id].status
            = "obsolete"

\* C14: a user has at most one in_progress session per module, also when
\* start requests of the same user for the same module are served at the
\* same time.
C14_OneSessionInProgress ==
  \A i, j \in DOMAIN training_sessions :
    (/\ training_sessions[i].user_id = training_sessions[j].user_id
     /\ training_sessions[i].module_id = training_sessions[j].module_id
     /\ training_sessions[i].status = "in_progress"
     /\ training_sessions[j].status = "in_progress") => i = j

(***************************************************************************)
(* Properties of POST /@docs/save and of the document links.               *)
(***************************************************************************)

C18_RegisterVersionInSync ==
  [][(resp'.op \in {"save", "approve"} /\ resp'.status = 200
        /\ served' = served + 1) =>
       LET d == resp'.doc
           registered == {q \in DOMAIN controlled_documents :
                            controlled_documents[q].docs_id = d}
       IN /\ \A q \in registered :
               /\ controlled_documents'[q].docs_id = d
               /\ controlled_documents'[q].version = docs'[d].version
          /\ resp'.op = "save" => (resp'.qdoc # NULL <=> registered # {})
    ]_vars

\* a save gave a registered document a version the register did not have
C18_Witness ==
  /\ resp.op = "save"
  /\ resp.status = 200
  /\ resp.qdoc \in DOMAIN controlled_documents
  /\ controlled_documents[resp.qdoc].docs_id = resp.doc
  /\ docs[resp.doc].version \notin {V10, V11}
  /\ controlled_documents[resp.qdoc].version = docs[resp.doc].version

\* C19: qms.document_links never holds a link of a document to itself nor
\* two links with the same source, target and relationship type; a request
\* for a self-link is answered 400, one for a triple that exists 409, a
\* DELETE of an id that no link has 404, and each of the three leaves the
\* table as it was.
C19_LinksAreDistinct ==
  [][/\ \A l \in document_links' : l.source_doc_id # l.target_doc_id
     /\ \A l1, l2 \in document_links' :
          (/\ l1.source_doc_id = l2.source_doc_id
           /\ l1.target_doc_id = l2.target_doc_id
           /\ l1.relationship_type = l2.relationship_type) => l1 = l2
     /\ \A source_doc_id \in ReqLinkDocIds, target_doc_id \in ReqLinkDocIds,
           relationship_type \in ReqLinkTypes :
          PostLink(source_doc_id, target_doc_id, relationship_type) =>
            /\ (source_doc_id # UNDEF /\ source_doc_id = target_doc_id) =>
                 /\ resp'.status = 400
                 /\ UNCHANGED document_links
            /\ (\E l \in document_links :
                  /\ l.source_doc_id = source_doc_id
                  /\ l.target_doc_id = target_doc_id
                  /\ l.relationship_type = relationship_type) =>
                 /\ resp'.status = 409
                 /\ UNCHANGED document_links
            /\ resp'.status \in {201, 400, 409}
            /\ resp'.status = 201 =>
                 /\ Cardinality(document_links') = Cardinality(document_links) + 1
                 /\ \E l \in document_links' \ document_links :
                      /\ l.source_doc_id = source_doc_id
                      /\ l.target_doc_id = target_doc_id
                      /\ l.relationship_type = relationship_type
     /\ \A id \in 1..nextLinkId :
          DeleteLink(id) =>
            IF \E l \in document_links : l.id = id
            THEN /\ resp'.status = 204
                 /\ document_links' = {l \in document_links : l.id # id}
            ELSE /\ resp'.status = 404
                 /\ UNCHANGED document_links
    ]_vars

\* the same link was requested a second time and refused
C19_Witness ==
  /\ resp.op = "link"
  /\ resp.status = 409
  /\ document_links # {}

(***************************************************************************)
(* Properties of the responses.                                            *)
(***************************************************************************)

\* C20 as stated: every response that is not a success carries one of the
\* statuses 400, 404, 409, 422, 500.
C20_ErrorStatuses ==
  resp.status \notin {0, 200, 201, 204} =>
    resp.status \in {400, 404, 409, 422, 500}

\* C20 (amended): every response that is not a success carries one of the
\* statuses 400, 403, 404, 409, 422, 500, and 403 is the answer of
\* validate-step and abandon, and of them only, to a request on a session
\* of another user.
C20_ErrorStatusesWithForbidden ==
  /\ resp.status \notin {0, 200, 201, 204} =>
       resp.status \in {400, 403, 404, 409, 422, 500}
  /\ resp.status = 403 <=>
       /\ resp.op \in {"validate", "abandon"}
       /\ call.session_id \in DOMAIN training_sessions
       /\ training_sessions[call.session_id].user_id # call.user
       /\ resp.op = "validate" => call.step_number # StepUndef

\* another user asked to abandon a session in progress and got 403
C20_Witness ==
  /\ resp.op = "abandon"
  /\ resp.status = 403
  /\ call.session_id \in DOMAIN training_sessions
  /\ training_sessions[call.session_id].status = "in_progress"
  /\ training_sessions[call.session_id].user_id # call.user

(***************************************************************************)
(* Properties of approve requests served at the same time.                 *)
(***************************************************************************)

\* C21: of the approve requests for one draft of a registered document at
\* most one is answered with success, at most one 'approve' transition is
\* recorded for the draft, and
\* each evidence type of the approval is recorded once for it.
C21_PublishedOnce ==
  \A t1, t2 \in approving :
    (/\ t1.pc = "done" /\ t2.pc = "done"
     /\ t1.draft.id = t2.draft.id
     /\ getQmsDocumentId(t1.draft.doc_id) # {}
     /\ t1.rid # t2.rid) =>
      /\ ~ (t1.status = 200 /\ t2.status = 200)
      /\ ~ (t1.transition_id # NoId /\ t2.transition_id # NoId)
      /\ \A i, j \in DOMAIN document_evidence :
           (/\ document_evidence[i].transition_id = t1.transition_id
            /\ document_evidence[j].transition_id = t2.transition_id
            /\ t1.transition_id # NoId
            /\ t2.transition_id # NoId) =>
             document_evidence[i].evidence_type
               # document_evidence[j].evidence_type

(***************************************************************************)
(* Properties of the token list.                                           *)
(***************************************************************************)

====
